---- MODULE Spec2Model ----
(***************************************************************************)
(* Model of the notification classes of pynotificator (and of the older    *)
(* pynotify package that ships beside it): the type-checked attribute      *)
(* model, the OS dispatch, the per-backend payloads and the command-line   *)
(* entry points.                                                           *)
(*                                                                         *)
(* A Python value is a record [type, s, i, b]; a Python string is the      *)
(* sequence of its characters.  One object is followed from its            *)
(* construction through setter calls and notify() calls; every external    *)
(* effect (subprocess.run, time.sleep, requests.post, show_toast) of the   *)
(* last operation is recorded in `events`, and the package, class and      *)
(* methods the operation entered in `invoked`.  subprocess.run and requests.post   *)
(* are external collaborators: they are recorded and return.               *)
(***************************************************************************)
EXTENDS Integers, Sequences, FiniteSets, TLC

VARIABLES obj, phase, op, args, exc, events, invoked

vars == <<obj, phase, op, args, exc, events, invoked>>

---------------------------------------------------------------------------
(* Bounds of the model *)

MaxTimes == 2

---------------------------------------------------------------------------
(* Python values *)

PyStr(x) == [type |-> "str", s |-> x, i |-> 0, b |-> FALSE]

PyInt(n) == [type |-> "int", s |-> <<>>, i |-> n, b |-> FALSE]

PyBool(x) == [type |-> "bool", s |-> <<>>, i |-> 0, b |-> x]

None == [type |-> "NoneType", s |-> <<>>, i |-> 0, b |-> FALSE]

\* an attribute that does not exist, or an argument that was not passed
Absent == [type |-> "absent", s |-> <<>>, i |-> 0, b |-> FALSE]

\* the strings the callers of the model pass for each parameter
StringsOf ==
    [message |-> {<<>>, <<"a">>, <<"\"">>},
     url |-> {<<>>, <<"u">>},
     token |-> {<<>>, <<"k">>},
     times |-> {<<>>, <<"a">>},
     title |-> {<<>>, <<"t">>},
     subtitle |-> {<<>>, <<"s">>},
     icon |-> {<<>>, <<"i">>},
     sound |-> {<<>>, <<"a">>}]

\* the integers they pass
IntsOf(param) == IF param = "times" THEN 0..MaxTimes ELSE {0, 1}

\* the values they pass for a parameter: None, strings, integers, booleans
ValuesOf(param) ==
    {None} \cup {PyStr(x) : x \in StringsOf[param]}
           \cup {PyInt(n) : n \in IntsOf(param)}
           \cup {PyBool(x) : x \in BOOLEAN}

\* the same, or nothing for a parameter that has a default
Optional(param) == ValuesOf(param) \cup {Absent}

\* bool(value), as `if value:` evaluates it
Truthy(v) ==
    CASE v.type = "str" -> v.s # <<>>
      [] v.type = "int" -> v.i # 0
      [] v.type = "bool" -> v.b
      [] OTHER -> FALSE

\* the integer a value stands for where Python uses it as an index (bool is
\* a subclass of int: True is 1, False is 0)
IndexOf(v) ==
    CASE v.type = "int" -> v.i
      [] v.type = "bool" -> (IF v.b THEN 1 ELSE 0)
      [] OTHER -> 0

\* isinstance(value, specified_type) for specified_type in {str, int, bool}:
\* the value's class is the type or a subclass of it, and bool subclasses int
isinstance(value, specified_type) ==
    \/ value.type = specified_type
    \/ specified_type = "int" /\ value.type = "bool"

\* returns the value, or raises NotificationError
set_typed_variable(value, specified_type) ==
    IF isinstance(value, specified_type)
    THEN [exc |-> "ok", value |-> value]
    ELSE [exc |-> "NotificationError", value |-> Absent]

---------------------------------------------------------------------------
(* String literals of the source and string formatting *)

s_osascript ==
    <<"o", "s", "a", "s", "c", "r", "i", "p", "t">>

s_dash_e ==
    <<"-", "e">>

s_beep ==
    <<"b", "e", "e", "p", " ">>

s_xkbbell ==
    <<"x", "k", "b", "b", "e", "l", "l">>

s_rundll32 ==
    <<"r", "u", "n", "d", "l", "l", "3", "2">>

s_MessageBeep ==
    <<"u", "s", "e", "r", "3", "2", ".", "d", "l", "l", ",", "M", "e", "s", "s", "a", "g", "e", "B", "e", "e", "p">>

s_display_notification ==
    <<"d", "i", "s", "p", "l", "a", "y", " ", "n", "o", "t", "i", "f", "i", "c", "a", "t", "i", "o", "n", " ", "\"">>

s_quote ==
    <<"\"">>

s_with_title ==
    <<"w", "i", "t", "h", " ", "t", "i", "t", "l", "e", " ", "\"">>

s_quote_space ==
    <<"\"", " ">>

s_subtitle ==
    <<"s", "u", "b", "t", "i", "t", "l", "e", " ", "\"">>

s_quote_subtitle ==
    <<"\"", " ", "s", "u", "b", "t", "i", "t", "l", "e", " ", "\"">>

s_sound_name ==
    <<"s", "o", "u", "n", "d", " ", "n", "a", "m", "e", " ", "\"", "\"">>

s_space ==
    <<" ">>

s_dash ==
    <<" ", "-", " ">>

s_notify_send ==
    <<"n", "o", "t", "i", "f", "y", "-", "s", "e", "n", "d">>

s_dash_i ==
    <<"-", "i">>

s_LINE_URL ==
    <<"h", "t", "t", "p", "s", ":", "/", "/", "n", "o", "t", "i", "f", "y", "-", "a", "p", "i", ".", "l", "i", "n", "e", ".", "m", "e", "/", "a", "p", "i", "/", "n", "o", "t", "i", "f", "y">>

s_Authorization ==
    <<"A", "u", "t", "h", "o", "r", "i", "z", "a", "t", "i", "o", "n">>

s_Bearer ==
    <<"B", "e", "a", "r", "e", "r", " ">>

s_message ==
    <<"m", "e", "s", "s", "a", "g", "e">>

s_Content_Type ==
    <<"C", "o", "n", "t", "e", "n", "t", "-", "T", "y", "p", "e">>

s_application_json ==
    <<"a", "p", "p", "l", "i", "c", "a", "t", "i", "o", "n", "/", "j", "s", "o", "n">>

s_text ==
    <<"t", "e", "x", "t">>

s_content ==
    <<"c", "o", "n", "t", "e", "n", "t">>

s_True ==
    <<"T", "r", "u", "e">>

s_False ==
    <<"F", "a", "l", "s", "e">>

s_None ==
    <<"N", "o", "n", "e">>

Digits == <<"0", "1", "2", "3", "4", "5", "6", "7", "8", "9">>

\* str(n) of a natural number
RECURSIVE NatToStr(_)
NatToStr(n) ==
    IF n < 10 THEN <<Digits[n + 1]>>
    ELSE NatToStr(n \div 10) \o <<Digits[(n % 10) + 1]>>

\* what an f-string field {value} expands to: format(value, '')
Format(v) ==
    CASE v.type = "str" -> v.s
      [] v.type = "int" -> (IF v.i < 0 THEN <<"-">> \o NatToStr(0 - v.i)
                            ELSE NatToStr(v.i))
      [] v.type = "bool" -> (IF v.b THEN s_True ELSE s_False)
      [] OTHER -> s_None

\* the JSON string escape of json.dumps for the characters the model uses
RECURSIVE json_escape(_)
json_escape(x) ==
    IF x = <<>> THEN <<>>
    ELSE (IF Head(x) \in {"\"", "\\"} THEN <<"\\", Head(x)>> ELSE <<Head(x)>>)
         \o json_escape(Tail(x))

json_string(x) ==
    s_quote \o json_escape(x) \o s_quote

\* json.dumps({key: value}) for a str value: '{"key": "value"}'
json_dumps(key, value) ==
    <<"{">> \o json_string(key) \o <<":", " ">> \o json_string(value.s) \o <<"}">>

---------------------------------------------------------------------------
(* External effects *)

NoEvent ==
    [kind |-> "none", cmd |-> <<>>, ms |-> 0, url |-> Absent, headers |-> {},
     data |-> <<>>, params |-> {}, toast |-> <<>>]

\* subprocess.run(cmd)
RunEvent(cmd) == [NoEvent EXCEPT !.kind = "run", !.cmd = cmd]

\* time.sleep(ms / 1000)
SleepEvent(ms) == [NoEvent EXCEPT !.kind = "sleep", !.ms = ms]

\* requests.post(url, headers=headers, data=data, params=params)
PostEvent(url, headers, data, params) ==
    [NoEvent EXCEPT !.kind = "post", !.url = url, !.headers = headers,
                    !.data = data, !.params = params]

\* ToastNotifier().show_toast(title, message, icon_path=icon, duration=secs)
ToastEvent(title, message, icon, secs) ==
    [NoEvent EXCEPT !.kind = "toast", !.toast = <<title, message, icon, PyInt(secs)>>]

---------------------------------------------------------------------------
(* Objects *)

Packages == {"pynotificator", "pynotify"}

\* what platform.system() may return: the three supported names, or another
Systems == {"Darwin", "Linux", "Windows", "Java"}

NoObj ==
    [cls |-> "none", pkg |-> "none", system |-> "none",
     message |-> Absent, url |-> Absent, token |-> Absent, times |-> Absent,
     title |-> Absent, subtitle |-> Absent, icon |-> Absent, sound |-> Absent,
     URL |-> Absent]

NoArgs ==
    [message |-> Absent, url |-> Absent, token |-> Absent, times |-> Absent,
     title |-> Absent, subtitle |-> Absent, icon |-> Absent, sound |-> Absent]

\* the result of a constructor or setter: the exception raised ("ok" when
\* none) and the object as the call left it
Ret(e, o) == [exc |-> e, obj |-> o]

\* a parameter's value: the one passed, or the default of the signature
Param(v, default) == IF v = Absent THEN default ELSE v

---------------------------------------------------------------------------
(* Setters: self._field = self.set_typed_variable(value, type) *)

set_message(o, message) ==
    LET r == set_typed_variable(message, "str")
    IN  IF r.exc = "ok" THEN Ret("ok", [o EXCEPT !.message = r.value])
        ELSE Ret(r.exc, o)

set_url(o, url) ==
    LET r == set_typed_variable(url, "str")
    IN  IF r.exc = "ok" THEN Ret("ok", [o EXCEPT !.url = r.value])
        ELSE Ret(r.exc, o)

set_token(o, token) ==
    LET r == set_typed_variable(token, "str")
    IN  IF r.exc = "ok" THEN Ret("ok", [o EXCEPT !.token = r.value])
        ELSE Ret(r.exc, o)

set_times(o, times) ==
    LET r == set_typed_variable(times, "int")
    IN  IF r.exc = "ok" THEN Ret("ok", [o EXCEPT !.times = r.value])
        ELSE Ret(r.exc, o)

set_icon(o, icon) ==
    LET r == set_typed_variable(icon, "str")
    IN  IF r.exc = "ok" THEN Ret("ok", [o EXCEPT !.icon = r.value])
        ELSE Ret(r.exc, o)

set_sound(o, sound) ==
    LET r == set_typed_variable(sound, "bool")
    IN  IF r.exc = "ok" THEN Ret("ok", [o EXCEPT !.sound = r.value])
        ELSE Ret(r.exc, o)

\* pynotificator: title and subtitle are set independently
pynotificator_set_title(o, title) ==
    LET r == set_typed_variable(title, "str")
    IN  IF r.exc = "ok" THEN Ret("ok", [o EXCEPT !.title = r.value])
        ELSE Ret(r.exc, o)

pynotificator_set_subtitle(o, subtitle) ==
    LET r == set_typed_variable(subtitle, "str")
    IN  IF r.exc = "ok" THEN Ret("ok", [o EXCEPT !.subtitle = r.value])
        ELSE Ret(r.exc, o)

\* a setter that leaves the other field alone
pynotify_set_title_no_blank(o, title) ==
    LET r == set_typed_variable(title, "str")
    IN  IF r.exc = "ok" THEN Ret("ok", [o EXCEPT !.title = r.value])
        ELSE Ret(r.exc, o)

\* a setter that blanks the other field before it checks the type
pynotify_set_title_blank_first(o, title) ==
    LET r == set_typed_variable(title, "str")
        blanked == [o EXCEPT !.subtitle = IF ~Truthy(o.subtitle)
                                          THEN PyStr(s_space) ELSE @]
    IN  IF r.exc = "ok" THEN Ret("ok", [blanked EXCEPT !.title = r.value])
        ELSE Ret(r.exc, blanked)

\* pynotify: setting one of the two blanks the other when it is missing
pynotify_set_title(o, title) ==
    LET r == set_typed_variable(title, "str")
    IN  IF r.exc = "ok"
        THEN Ret("ok", [o EXCEPT !.title = r.value,
                                 !.subtitle = IF ~Truthy(o.subtitle)
                                              THEN PyStr(s_space) ELSE @])
        ELSE Ret(r.exc, o)

pynotify_set_subtitle(o, subtitle) ==
    LET r == set_typed_variable(subtitle, "str")
    IN  IF r.exc = "ok"
        THEN Ret("ok", [o EXCEPT !.subtitle = r.value,
                                 !.title = IF ~Truthy(o.title)
                                           THEN PyStr(s_space) ELSE @])
        ELSE Ret(r.exc, o)

set_title(o, title) ==
    IF o.pkg = "pynotify" THEN pynotify_set_title(o, title)
    ELSE pynotificator_set_title(o, title)

set_subtitle(o, subtitle) ==
    IF o.pkg = "pynotify" THEN pynotify_set_subtitle(o, subtitle)
    ELSE pynotificator_set_subtitle(o, subtitle)

---------------------------------------------------------------------------
(* Constructors *)
(* A statement after a call runs only when the call did not raise.         *)

\* self.system = platform.system()
OSSpecificNotification_init(o, system) ==
    Ret("ok", [o EXCEPT !.system = system])

MessageNotification_init(o, message) ==
    set_message([o EXCEPT !.message = None], message)

WebhookNotification_init(o, message, url) ==
    LET r1 == MessageNotification_init(o, message)
    IN  IF r1.exc # "ok" THEN r1
        ELSE set_url([r1.obj EXCEPT !.url = None], url)

TokenNotification_init(o, message, token) ==
    LET r1 == MessageNotification_init(o, message)
    IN  IF r1.exc # "ok" THEN r1
        ELSE set_token([r1.obj EXCEPT !.token = None], token)

BeepNotification_init(o, times, system) ==
    LET r1 == OSSpecificNotification_init(o, system)
    IN  IF r1.exc # "ok" THEN r1
        ELSE set_times([r1.obj EXCEPT !.times = None], times)

\* a constructor that validates every optional value that is not None
CenterNotification_init_not_none(o, a, system) ==
    LET title == Param(a.title, None)
        subtitle == Param(a.subtitle, None)
        icon == Param(a.icon, None)
        sound == Param(a.sound, PyBool(TRUE))
        r1 == MessageNotification_init(o, a.message)
        r2 == OSSpecificNotification_init(r1.obj, system)
        o2 == [r2.obj EXCEPT !.title = None, !.subtitle = None,
                             !.icon = None, !.sound = None]
        r3 == IF title # None THEN pynotificator_set_title(o2, title)
              ELSE Ret("ok", o2)
        r4 == IF subtitle # None THEN pynotificator_set_subtitle(r3.obj, subtitle)
              ELSE Ret("ok", r3.obj)
        r5 == IF icon # None THEN set_icon(r4.obj, icon) ELSE Ret("ok", r4.obj)
        r6 == IF sound # None THEN set_sound(r5.obj, sound) ELSE Ret("ok", r5.obj)
    IN  IF r1.exc # "ok" THEN r1
        ELSE IF r2.exc # "ok" THEN r2
        ELSE IF r3.exc # "ok" THEN r3
        ELSE IF r4.exc # "ok" THEN r4
        ELSE IF r5.exc # "ok" THEN r5
        ELSE r6

\* each optional value is set, through its setter, only `if value:`
CenterNotification_init(o, a, system) ==
    LET title == Param(a.title, None)
        subtitle == Param(a.subtitle, None)
        icon == Param(a.icon, None)
        sound == Param(a.sound, PyBool(TRUE))
        r1 == MessageNotification_init(o, a.message)
        r2 == OSSpecificNotification_init(r1.obj, system)
        o2 == [r2.obj EXCEPT !.title = None, !.subtitle = None,
                             !.icon = None, !.sound = None]
        r3 == IF Truthy(title) THEN pynotificator_set_title(o2, title)
              ELSE Ret("ok", o2)
        r4 == IF Truthy(subtitle) THEN pynotificator_set_subtitle(r3.obj, subtitle)
              ELSE Ret("ok", r3.obj)
        r5 == IF Truthy(icon) THEN set_icon(r4.obj, icon) ELSE Ret("ok", r4.obj)
        r6 == IF Truthy(sound) THEN set_sound(r5.obj, sound) ELSE Ret("ok", r5.obj)
    IN  IF r1.exc # "ok" THEN r1
        ELSE IF r2.exc # "ok" THEN r2
        ELSE IF r3.exc # "ok" THEN r3
        ELSE IF r4.exc # "ok" THEN r4
        ELSE IF r5.exc # "ok" THEN r5
        ELSE r6

pynotify_CenterNotification_init(o, a) ==
    LET title == Param(a.title, None)
        subtitle == Param(a.subtitle, None)
        sound == Param(a.sound, PyBool(TRUE))
        r1 == MessageNotification_init(o, a.message)
        o1 == [r1.obj EXCEPT !.title = None, !.subtitle = None, !.sound = None]
        r3 == IF Truthy(title) THEN pynotify_set_title(o1, title)
              ELSE Ret("ok", o1)
        r4 == IF Truthy(subtitle) THEN pynotify_set_subtitle(r3.obj, subtitle)
              ELSE Ret("ok", r3.obj)
        r6 == IF Truthy(sound) THEN set_sound(r4.obj, sound) ELSE Ret("ok", r4.obj)
    IN  IF r1.exc # "ok" THEN r1
        ELSE IF r3.exc # "ok" THEN r3
        ELSE IF r4.exc # "ok" THEN r4
        ELSE r6

LineNotification_init(o, message, token) ==
    LET r1 == TokenNotification_init(o, message, token)
    IN  IF r1.exc # "ok" THEN r1
        ELSE Ret("ok", [r1.obj EXCEPT !.URL = PyStr(s_LINE_URL)])

\* the classes of each package that the model instantiates
Classes ==
    {"OSSpecificNotification", "BeepNotification", "CenterNotification",
     "SlackNotification", "DiscordNotification", "LineNotification"}

\* cls(...) of package pkg with the arguments a, on a host whose
\* platform.system() is system
New(pkg, cls, a, system) ==
    LET o == [NoObj EXCEPT !.cls = cls, !.pkg = pkg]
    IN  CASE cls = "OSSpecificNotification" -> OSSpecificNotification_init(o, system)
          [] cls = "BeepNotification" -> BeepNotification_init(o, a.times, system)
          [] cls = "CenterNotification" ->
                IF pkg = "pynotify" THEN pynotify_CenterNotification_init(o, a)
                ELSE CenterNotification_init(o, a, system)
          [] cls = "SlackNotification" -> WebhookNotification_init(o, a.message, a.url)
          [] cls = "DiscordNotification" -> WebhookNotification_init(o, a.message, a.url)
          [] cls = "LineNotification" -> LineNotification_init(o, a.message, a.token)

---------------------------------------------------------------------------
(* notify() *)

BeepDelayMs == 500

ToastDuration == 5

\* what a method call did: the exception raised ("ok" when none), the
\* external effects in order, and the methods entered in order
Did(e, ev, inv) == [exc |-> e, events |-> ev, invoked |-> inv]

\* the effects of `for _ in range(n): body`
RECURSIVE range_loop(_, _)
range_loop(n, body) ==
    IF n <= 0 THEN <<>> ELSE body \o range_loop(n - 1, body)

BaseNotification_notify(o) ==
    Did("NotImplementedError", <<>>, <<"BaseNotification.notify">>)

OSSpecificNotification_darwin_notify(o) ==
    Did("NotImplementedError", <<>>, <<"darwin_notify">>)

OSSpecificNotification_linux_notify(o) ==
    Did("NotImplementedError", <<>>, <<"linux_notify">>)

OSSpecificNotification_windows_notify(o) ==
    Did("NotImplementedError", <<>>, <<"windows_notify">>)

BeepNotification_darwin_notify(o) ==
    Did("ok",
        <<RunEvent(<<s_osascript, s_dash_e, s_beep \o Format(o.times)>>)>>,
        <<"darwin_notify">>)

\* a loop that forgets the delay
BeepNotification_linux_notify_no_sleep(o) ==
    Did("ok",
        range_loop(IndexOf(o.times), <<RunEvent(<<s_xkbbell>>)>>),
        <<"linux_notify">>)

\* pynotificator: run, then sleep
BeepNotification_linux_notify(o) ==
    Did("ok",
        range_loop(IndexOf(o.times),
                   <<RunEvent(<<s_xkbbell>>), SleepEvent(BeepDelayMs)>>),
        <<"linux_notify">>)

\* pynotify: sleep, then run
pynotify_BeepNotification_linux_notify(o) ==
    Did("ok",
        range_loop(IndexOf(o.times),
                   <<SleepEvent(BeepDelayMs), RunEvent(<<s_xkbbell>>)>>),
        <<"linux_notify">>)

BeepNotification_windows_notify(o) ==
    Did("ok",
        range_loop(IndexOf(o.times),
                   <<RunEvent(<<s_rundll32, s_MessageBeep>>),
                     SleepEvent(BeepDelayMs)>>),
        <<"windows_notify">>)

CenterNotification_darwin_notify(o) ==
    LET m == s_display_notification \o Format(o.message) \o s_quote
        t1 == IF Truthy(o.title)
              THEN s_with_title \o Format(o.title) \o s_quote_space ELSE <<>>
        t2 == IF Truthy(o.subtitle)
              THEN s_subtitle \o Format(o.subtitle) \o s_quote ELSE <<>>
        snd == IF Truthy(o.sound) THEN s_sound_name ELSE <<>>
    IN  Did("ok",
            <<RunEvent(<<s_osascript, s_dash_e,
                         m \o s_space \o t1 \o t2 \o s_space \o snd>>)>>,
            <<"darwin_notify">>)

\* a title that tests for None instead of truth
linux_title_is_not_none(o) ==
    IF o.title # None /\ o.subtitle # None
    THEN PyStr(Format(o.title) \o s_dash \o Format(o.subtitle))
    ELSE IF o.title # None THEN o.title
    ELSE IF o.subtitle # None THEN o.subtitle
    ELSE PyStr(s_space)

\* the title argument of linux_notify
linux_title(o) ==
    IF Truthy(o.title) /\ Truthy(o.subtitle)
    THEN PyStr(Format(o.title) \o s_dash \o Format(o.subtitle))
    ELSE IF Truthy(o.title) THEN o.title
    ELSE IF Truthy(o.subtitle) THEN o.subtitle
    ELSE PyStr(s_space)

CenterNotification_linux_notify(o) ==
    LET cmd == <<s_notify_send, linux_title(o).s, o.message.s>>
    IN  Did("ok",
            <<RunEvent(IF Truthy(o.icon) THEN cmd \o <<s_dash_i, o.icon.s>>
                       ELSE cmd)>>,
            <<"linux_notify">>)

\* the title argument of windows_notify
windows_title(o) ==
    IF Truthy(o.title) /\ Truthy(o.subtitle)
    THEN PyStr(Format(o.title) \o s_dash \o Format(o.subtitle))
    ELSE IF Truthy(o.title) THEN o.title
    ELSE IF Truthy(o.subtitle) THEN o.subtitle
    ELSE None

CenterNotification_windows_notify(o) ==
    Did("ok",
        <<ToastEvent(windows_title(o), o.message, o.icon, ToastDuration)>>,
        <<"windows_notify">>)

\* method resolution of the three hooks
darwin_notify(o) ==
    CASE o.cls = "BeepNotification" -> BeepNotification_darwin_notify(o)
      [] o.cls = "CenterNotification" -> CenterNotification_darwin_notify(o)
      [] OTHER -> OSSpecificNotification_darwin_notify(o)

linux_notify(o) ==
    CASE o.cls = "BeepNotification" /\ o.pkg = "pynotify" ->
            pynotify_BeepNotification_linux_notify(o)
      [] o.cls = "BeepNotification" -> BeepNotification_linux_notify(o)
      [] o.cls = "CenterNotification" -> CenterNotification_linux_notify(o)
      [] OTHER -> OSSpecificNotification_linux_notify(o)

\* pynotify's BeepNotification defines no windows_notify
windows_notify(o) ==
    CASE o.cls = "BeepNotification" /\ o.pkg = "pynotificator" ->
            BeepNotification_windows_notify(o)
      [] o.cls = "CenterNotification" -> CenterNotification_windows_notify(o)
      [] OTHER -> OSSpecificNotification_windows_notify(o)

\* a call made from notify(): notify's name goes before what the callee did
Via(name, d) == Did(d.exc, d.events, <<name>> \o d.invoked)

\* a dispatch whose Linux branch was copied from the Darwin branch
OSSpecificNotification_notify_copied_branch(o) ==
    IF o.system = "Darwin" THEN Via("notify", darwin_notify(o))
    ELSE IF o.system = "Linux" THEN Via("notify", darwin_notify(o))
    ELSE IF o.system = "Windows" THEN Via("notify", windows_notify(o))
    ELSE Did("ok", <<>>, <<"notify">>)

\* the else branch builds a NotificationError and drops it: nothing is raised
OSSpecificNotification_notify(o) ==
    IF o.system = "Darwin" THEN Via("notify", darwin_notify(o))
    ELSE IF o.system = "Linux" THEN Via("notify", linux_notify(o))
    ELSE IF o.system = "Windows" THEN Via("notify", windows_notify(o))
    ELSE Did("ok", <<>>, <<"notify">>)

pynotify_CenterNotification_notify(o) ==
    LET m == s_display_notification \o Format(o.message) \o s_quote
        t == IF Truthy(o.title) /\ Truthy(o.subtitle)
             THEN s_with_title \o Format(o.title) \o s_quote_subtitle
                  \o Format(o.subtitle) \o s_quote
             ELSE <<>>
        snd == IF Truthy(o.sound) THEN s_sound_name ELSE <<>>
    IN  Did("ok",
            <<RunEvent(<<s_osascript, s_dash_e,
                         m \o s_space \o t \o s_space \o snd>>)>>,
            <<"notify">>)

\* a body built by hand, without the escapes of json.dumps
SlackNotification_notify_unescaped(o) ==
    Did("ok",
        <<PostEvent(o.url, {},
                    <<"{">> \o s_quote \o s_text \o s_quote \o <<":", " ">>
                    \o s_quote \o o.message.s \o s_quote \o <<"}">>, {})>>,
        <<"notify">>)

SlackNotification_notify(o) ==
    Did("ok",
        <<PostEvent(o.url, {}, json_dumps(s_text, o.message), {})>>,
        <<"notify">>)

DiscordNotification_notify(o) ==
    Did("ok",
        <<PostEvent(o.url, {<<s_Content_Type, s_application_json>>},
                    json_dumps(s_content, o.message), {})>>,
        <<"notify">>)

\* a header that carries the bare token
LineNotification_notify_bare_token(o) ==
    Did("ok",
        <<PostEvent(o.URL, {<<s_Authorization, Format(o.token)>>},
                    <<>>, {<<s_message, o.message.s>>})>>,
        <<"notify">>)

LineNotification_notify(o) ==
    Did("ok",
        <<PostEvent(o.URL, {<<s_Authorization, s_Bearer \o Format(o.token)>>},
                    <<>>, {<<s_message, o.message.s>>})>>,
        <<"notify">>)

\* method resolution of notify()
notify(o) ==
    CASE o.cls \in {"OSSpecificNotification", "BeepNotification"} ->
            OSSpecificNotification_notify(o)
      [] o.cls = "CenterNotification" ->
            IF o.pkg = "pynotify" THEN pynotify_CenterNotification_notify(o)
            ELSE OSSpecificNotification_notify(o)
      [] o.cls = "SlackNotification" -> SlackNotification_notify(o)
      [] o.cls = "DiscordNotification" -> DiscordNotification_notify(o)
      [] o.cls = "LineNotification" -> LineNotification_notify(o)
      [] OTHER -> BaseNotification_notify(o)

---------------------------------------------------------------------------
(* Command-line entry points (pynotificator/__main__.py) *)

\* the names that `import pynotificator` binds in the package
ModuleAttributes ==
    {"json", "platform", "subprocess", "time", "requests",
     "NotificationError", "BaseNotification", "OSSpecificNotification",
     "MessageNotification", "WebhookNotification", "TokenNotification",
     "BeepNotification", "CenterNotification", "SlackNotification",
     "DiscordNotification", "LineNotification"}

\* the class each entry point looks up in the package
EntryClass ==
    [beep_notify |-> "BeepNotification",
     desktop_notify |-> "DesktopNotification",
     slack_notify |-> "SlackNotification",
     discord_notify |-> "DiscordNotification",
     line_notify |-> "LineNotification"]

EntryPoints == DOMAIN EntryClass

\* the constructor arguments each entry point builds from its parsed flags:
\* --times is parsed with type=int, every other flag is a string, and
\* --nosound is a store_true flag passed on as `not args.nosound`
EntryArgs(ep) ==
    CASE ep = "beep_notify" ->
            {[NoArgs EXCEPT !.times = PyInt(n)] : n \in 0..MaxTimes}
      [] ep = "desktop_notify" ->
            {[NoArgs EXCEPT !.message = PyStr(m), !.title = PyStr(t),
                            !.subtitle = PyStr(s), !.icon = PyStr(i),
                            !.sound = PyBool(~nosound)] :
                m \in StringsOf.message, t \in StringsOf.title,
                s \in StringsOf.subtitle, i \in StringsOf.icon,
                nosound \in BOOLEAN}
      [] ep \in {"slack_notify", "discord_notify"} ->
            {[NoArgs EXCEPT !.message = PyStr(m), !.url = PyStr(u)] :
                m \in StringsOf.message, u \in StringsOf.url}
      [] ep = "line_notify" ->
            {[NoArgs EXCEPT !.message = PyStr(m), !.token = PyStr(k)] :
                m \in StringsOf.message, k \in StringsOf.token}

\* the body of an entry point after parse_args(): look the class up in the
\* package, construct it, call notify() on it
entry_point(ep, a, system) ==
    LET cls == EntryClass[ep]
    IN  IF cls \notin ModuleAttributes
        THEN [exc |-> "AttributeError", obj |-> NoObj, events |-> <<>>,
              invoked |-> <<"pynotificator">>]
        ELSE LET r == New("pynotificator", cls, a, system)
             IN  IF r.exc # "ok"
                 THEN [exc |-> r.exc, obj |-> NoObj, events |-> <<>>,
                       invoked |-> <<"pynotificator", cls>>]
                 ELSE LET d == notify(r.obj)
                      IN  [exc |-> d.exc, obj |-> r.obj, events |-> d.events,
                           invoked |-> <<"pynotificator", cls>> \o d.invoked]

---------------------------------------------------------------------------
(* The state machine *)

\* the arguments a caller may pass to each constructor: every required
\* parameter, and each optional parameter or not
ConstructorArgs(pkg, cls) ==
    CASE cls = "OSSpecificNotification" -> {NoArgs}
      [] cls = "BeepNotification" ->
            {[NoArgs EXCEPT !.times = v] : v \in ValuesOf("times")}
      [] cls = "CenterNotification" /\ pkg = "pynotificator" ->
            {[NoArgs EXCEPT !.message = m, !.title = t, !.subtitle = s,
                            !.icon = i, !.sound = d] :
                m \in ValuesOf("message"), t \in Optional("title"),
                s \in Optional("subtitle"), i \in Optional("icon"),
                d \in Optional("sound")}
      [] cls = "CenterNotification" /\ pkg = "pynotify" ->
            {[NoArgs EXCEPT !.message = m, !.title = t, !.subtitle = s,
                            !.sound = d] :
                m \in ValuesOf("message"), t \in Optional("title"),
                s \in Optional("subtitle"), d \in Optional("sound")}
      [] cls \in {"SlackNotification", "DiscordNotification"} ->
            {[NoArgs EXCEPT !.message = m, !.url = u] :
                m \in ValuesOf("message"), u \in ValuesOf("url")}
      [] cls = "LineNotification" ->
            {[NoArgs EXCEPT !.message = m, !.token = k] :
                m \in ValuesOf("message"), k \in ValuesOf("token")}

\* the classes of pynotify whose code differs from pynotificator's
PynotifyClasses ==
    {"OSSpecificNotification", "BeepNotification", "CenterNotification"}

Init ==
    /\ obj = NoObj
    /\ phase = "start"
    /\ op = "none"
    /\ args = NoArgs
    /\ exc = "ok"
    /\ events = <<>>
    /\ invoked = <<>>

\* o = cls(...): a constructor that raises leaves the caller no object
Construct(pkg, cls, a, system) ==
    /\ phase = "start"
    /\ LET r == New(pkg, cls, a, system)
       IN  /\ obj' = IF r.exc = "ok" THEN r.obj ELSE NoObj
           /\ phase' = IF r.exc = "ok" THEN "live" ELSE "failed"
           /\ exc' = r.exc
    /\ op' = "construct"
    /\ args' = a
    /\ events' = <<>>
    /\ invoked' = <<pkg, cls>>

\* o.field = value, through the property's setter
SetMessage(value) ==
    /\ phase = "live" /\ obj.message # Absent
    /\ obj' = set_message(obj, value).obj
    /\ exc' = set_message(obj, value).exc
    /\ op' = "set_message"
    /\ args' = [NoArgs EXCEPT !.message = value]
    /\ events' = <<>>
    /\ invoked' = <<"set_message">>
    /\ UNCHANGED phase

SetUrl(value) ==
    /\ phase = "live" /\ obj.url # Absent
    /\ obj' = set_url(obj, value).obj
    /\ exc' = set_url(obj, value).exc
    /\ op' = "set_url"
    /\ args' = [NoArgs EXCEPT !.url = value]
    /\ events' = <<>>
    /\ invoked' = <<"set_url">>
    /\ UNCHANGED phase

SetToken(value) ==
    /\ phase = "live" /\ obj.token # Absent
    /\ obj' = set_token(obj, value).obj
    /\ exc' = set_token(obj, value).exc
    /\ op' = "set_token"
    /\ args' = [NoArgs EXCEPT !.token = value]
    /\ events' = <<>>
    /\ invoked' = <<"set_token">>
    /\ UNCHANGED phase

SetTimes(value) ==
    /\ phase = "live" /\ obj.times # Absent
    /\ obj' = set_times(obj, value).obj
    /\ exc' = set_times(obj, value).exc
    /\ op' = "set_times"
    /\ args' = [NoArgs EXCEPT !.times = value]
    /\ events' = <<>>
    /\ invoked' = <<"set_times">>
    /\ UNCHANGED phase

SetTitle(value) ==
    /\ phase = "live" /\ obj.title # Absent
    /\ obj' = set_title(obj, value).obj
    /\ exc' = set_title(obj, value).exc
    /\ op' = "set_title"
    /\ args' = [NoArgs EXCEPT !.title = value]
    /\ events' = <<>>
    /\ invoked' = <<"set_title">>
    /\ UNCHANGED phase

SetSubtitle(value) ==
    /\ phase = "live" /\ obj.subtitle # Absent
    /\ obj' = set_subtitle(obj, value).obj
    /\ exc' = set_subtitle(obj, value).exc
    /\ op' = "set_subtitle"
    /\ args' = [NoArgs EXCEPT !.subtitle = value]
    /\ events' = <<>>
    /\ invoked' = <<"set_subtitle">>
    /\ UNCHANGED phase

SetIcon(value) ==
    /\ phase = "live" /\ obj.icon # Absent
    /\ obj' = set_icon(obj, value).obj
    /\ exc' = set_icon(obj, value).exc
    /\ op' = "set_icon"
    /\ args' = [NoArgs EXCEPT !.icon = value]
    /\ events' = <<>>
    /\ invoked' = <<"set_icon">>
    /\ UNCHANGED phase

SetSound(value) ==
    /\ phase = "live" /\ obj.sound # Absent
    /\ obj' = set_sound(obj, value).obj
    /\ exc' = set_sound(obj, value).exc
    /\ op' = "set_sound"
    /\ args' = [NoArgs EXCEPT !.sound = value]
    /\ events' = <<>>
    /\ invoked' = <<"set_sound">>
    /\ UNCHANGED phase

\* o.notify()
Notify ==
    /\ phase = "live"
    /\ LET d == notify(obj)
       IN  /\ exc' = d.exc
           /\ events' = d.events
           /\ invoked' = d.invoked
    /\ op' = "notify"
    /\ args' = NoArgs
    /\ UNCHANGED <<obj, phase>>

\* one run of a console script, from parse_args() to exit
EntryPoint(ep, a, system) ==
    /\ phase = "start"
    /\ LET r == entry_point(ep, a, system)
       IN  /\ obj' = r.obj
           /\ exc' = r.exc
           /\ events' = r.events
           /\ invoked' = r.invoked
    /\ phase' = "exited"
    /\ op' = ep
    /\ args' = a

\* a caller constructs one object of either package
ConstructAny ==
    /\ phase = "start"
    /\ \E pkg \in Packages :
          \E cls \in (IF pkg = "pynotify" THEN PynotifyClasses ELSE Classes) :
             \E system \in Systems :
                \E a \in ConstructorArgs(pkg, cls) :
                   Construct(pkg, cls, a, system)

\* a console script runs
EntryPointAny ==
    /\ phase = "start"
    /\ \E ep \in EntryPoints, system \in Systems :
          \E a \in EntryArgs(ep) : EntryPoint(ep, a, system)

\* a caller assigns to a property of the live object
SetAny ==
    /\ phase = "live"
    /\ \/ \E value \in ValuesOf("message") : SetMessage(value)
       \/ \E value \in ValuesOf("url") : SetUrl(value)
       \/ \E value \in ValuesOf("token") : SetToken(value)
       \/ \E value \in ValuesOf("times") : SetTimes(value)
       \/ \E value \in ValuesOf("title") : SetTitle(value)
       \/ \E value \in ValuesOf("subtitle") : SetSubtitle(value)
       \/ \E value \in ValuesOf("icon") : SetIcon(value)
       \/ \E value \in ValuesOf("sound") : SetSound(value)

Next ==
    \/ ConstructAny
    \/ EntryPointAny
    \/ SetAny
    \/ Notify

Spec == Init /\ [][Next]_vars

---------------------------------------------------------------------------
(* Vocabulary of the properties *)

SupportedSystems == {"Darwin", "Linux", "Windows"}

\* the objects whose notify() is OSSpecificNotification.notify
OSDispatching(o) ==
    \/ o.cls \in {"OSSpecificNotification", "BeepNotification"}
    \/ o.cls = "CenterNotification" /\ o.pkg = "pynotificator"

\* the type each attribute is declared with
DeclaredType ==
    [message |-> "str", url |-> "str", token |-> "str", times |-> "int",
     title |-> "str", subtitle |-> "str", icon |-> "str", sound |-> "bool"]

\* the parameter each setter assigns
SetterParam ==
    [set_message |-> "message", set_url |-> "url", set_token |-> "token",
     set_times |-> "times", set_title |-> "title",
     set_subtitle |-> "subtitle", set_icon |-> "icon", set_sound |-> "sound"]

\* the required constructor parameters of each class
RequiredParams(cls) ==
    CASE cls = "BeepNotification" -> {"times"}
      [] cls = "CenterNotification" -> {"message"}
      [] cls \in {"SlackNotification", "DiscordNotification"} -> {"message", "url"}
      [] cls = "LineNotification" -> {"message", "token"}
      [] OTHER -> {}

\* the positions of the events of one kind
Positions(kind) == {k \in 1..Len(events) : events[k].kind = kind}

---------------------------------------------------------------------------
(* C1: dispatch on another system than Darwin, Linux, Windows *)

\* C1: when the captured system is none of Darwin, Linux and Windows,
\* notify() of an OS-dispatching notifier fails with NotificationError and
\* makes no process or HTTP call.
C1_UnsupportedOSRaises ==
    (op = "notify" /\ OSDispatching(obj) /\ obj.system \notin SupportedSystems)
        => (exc = "NotificationError" /\ events = <<>>)

---------------------------------------------------------------------------
(* C2: the type check of every setter *)

\* C2: a setter stores the value unchanged exactly when the value's runtime
\* type equals the declared type, and fails with NotificationError
\* otherwise: an int is rejected for a bool, a bool is rejected for an int.
C2_ExactTypeOrMismatch ==
    op \in DOMAIN SetterParam =>
        LET param == SetterParam[op]
        IN  IF args[param].type = DeclaredType[param]
            THEN exc = "ok" /\ obj[param] = args[param]
            ELSE exc = "NotificationError"

---------------------------------------------------------------------------
(* C3: construction with a wrong-typed required field *)

\* C3: constructing a backend with a wrong-typed required field (message,
\* url, token, times) fails with NotificationError: no object is produced
\* and no process or HTTP call has been made.
C3_WrongTypedConstructionFails ==
    (/\ op = "construct"
     /\ \E param \in RequiredParams(invoked[2]) :
           args[param].type # DeclaredType[param])
        => (exc = "NotificationError" /\ obj = NoObj /\ events = <<>>)

---------------------------------------------------------------------------
(* C4: the beep loops *)

\* the events are n invocations of cmd, a delay of BeepDelayMs between any
\* two of them, and nothing but invocations and delays
BeepsExactly(n, cmd) ==
    /\ exc = "ok"
    /\ Cardinality(Positions("run")) = n
    /\ \A k \in 1..Len(events) :
          \/ events[k] = RunEvent(cmd)
          \/ events[k] = SleepEvent(BeepDelayMs)
    /\ \A i, j \in Positions("run") :
          i < j => \E k \in Positions("sleep") : i < k /\ k < j
    /\ (n = 0 => events = <<>>)

\* C4: for times = n >= 0, BeepNotification.notify() in Linux mode issues
\* exactly n bell commands, consecutive ones separated by the 0.5 s delay,
\* and none when n = 0; the Windows hook has the same shape.
C4_BeepLoop ==
    (op = "notify" /\ obj.cls = "BeepNotification" /\ IndexOf(obj.times) >= 0)
        => /\ obj.system = "Linux" => BeepsExactly(IndexOf(obj.times), <<s_xkbbell>>)
           /\ (obj.system = "Windows" /\ obj.pkg = "pynotificator")
                 => BeepsExactly(IndexOf(obj.times), <<s_rundll32, s_MessageBeep>>)

C4_Witness ==
    /\ op = "notify" /\ obj.cls = "BeepNotification" /\ obj.system = "Linux"
    /\ obj.times = PyInt(2)
    /\ Len(events) = 4

---------------------------------------------------------------------------
(* C5: the title argument of notify-send *)

\* the events are one notify-send with this title, then the message
NotifySendWith(title) ==
    /\ Len(events) = 1
    /\ events[1].kind = "run"
    /\ Len(events[1].cmd) >= 3
    /\ events[1].cmd[1] = s_notify_send
    /\ events[1].cmd[2] = title
    /\ events[1].cmd[3] = obj.message.s

CenterOnLinux ==
    /\ op = "notify"
    /\ obj.cls = "CenterNotification" /\ obj.pkg = "pynotificator"
    /\ obj.system = "Linux"

\* C5 as stated, a field being present when it is not null: the title
\* argument is "{title} - {subtitle}" when both are present, the present
\* one when one is, " " when neither is, and the message follows.
C5_TitleOfPresentFields ==
    CenterOnLinux =>
        NotifySendWith(
            IF obj.title # None /\ obj.subtitle # None
            THEN obj.title.s \o <<" ", "-", " ">> \o obj.subtitle.s
            ELSE IF obj.title # None THEN obj.title.s
            ELSE IF obj.subtitle # None THEN obj.subtitle.s
            ELSE <<" ">>)

\* C5 (amended): a field counts as present when it is a non-empty string;
\* null and the empty string are both absent.
C5_TitleOfNonEmptyFields ==
    CenterOnLinux =>
        LET hasTitle == obj.title \notin {None, PyStr(<<>>)}
            hasSubtitle == obj.subtitle \notin {None, PyStr(<<>>)}
        IN  NotifySendWith(
                IF hasTitle /\ hasSubtitle
                THEN obj.title.s \o <<" ", "-", " ">> \o obj.subtitle.s
                ELSE IF hasTitle THEN obj.title.s
                ELSE IF hasSubtitle THEN obj.subtitle.s
                ELSE <<" ">>)

C5_Witness ==
    /\ CenterOnLinux
    /\ obj.title = PyStr(<<>>) /\ obj.subtitle = PyStr(<<"s">>)
    /\ events[1].cmd[2] = <<"s">>

---------------------------------------------------------------------------
(* C6: the webhook posts *)

\* the first unescaped quote of x at or after position i, 0 when none
RECURSIVE JsonStringEnd(_, _)
JsonStringEnd(x, i) ==
    IF i > Len(x) THEN 0
    ELSE IF x[i] = "\\" THEN JsonStringEnd(x, i + 2)
    ELSE IF x[i] = "\"" THEN i
    ELSE JsonStringEnd(x, i + 1)

RECURSIVE JsonUnescape(_)
JsonUnescape(x) ==
    IF x = <<>> THEN <<>>
    ELSE IF Head(x) = "\\" /\ Len(x) >= 2
         THEN <<x[2]>> \o JsonUnescape(SubSeq(x, 3, Len(x)))
         ELSE <<Head(x)>> \o JsonUnescape(Tail(x))

\* the JSON text x read back as an object with one string member
JsonLoads(x) ==
    LET e1 == IF Len(x) >= 2 /\ x[1] = "{" /\ x[2] = "\""
              THEN JsonStringEnd(x, 3) ELSE 0
        mid == e1 > 0 /\ Len(x) >= e1 + 3
                      /\ SubSeq(x, e1 + 1, e1 + 3) = <<":", " ", "\"">>
        e2 == IF mid THEN JsonStringEnd(x, e1 + 4) ELSE 0
        ok == e2 > 0 /\ Len(x) = e2 + 1 /\ x[e2 + 1] = "}"
    IN  IF ok
        THEN [ok |-> TRUE, key |-> JsonUnescape(SubSeq(x, 3, e1 - 1)),
              value |-> JsonUnescape(SubSeq(x, e1 + 4, e2 - 1))]
        ELSE [ok |-> FALSE, key |-> <<>>, value |-> <<>>]

\* after the step, the stored field is the value last set: the one this
\* step constructed the object with or set successfully, or else the one
\* stored before the step
StoredIsLastSet(param) ==
    obj'[param] =
        IF \/ op' = "construct"
           \/ op' \in EntryPoints
           \/ op' \in DOMAIN SetterParam /\ SetterParam[op'] = param /\ exc' = "ok"
        THEN args'[param]
        ELSE obj[param]

\* the steps that call notify() on the object: a caller's call, or the one
\* call of a console script
CallsNotify(o) == o \in {"notify"} \cup EntryPoints

C6_Step ==
    obj'.cls \in {"SlackNotification", "DiscordNotification"} =>
        /\ StoredIsLastSet("message")
        /\ StoredIsLastSet("url")
        /\ CallsNotify(op') =>
              /\ Len(events') = 1
              /\ events'[1].kind = "post"
              /\ events'[1].url = obj'.url
              /\ events'[1].params = {}
              /\ JsonLoads(events'[1].data) =
                    [ok |-> TRUE,
                     key |-> IF obj'.cls = "SlackNotification"
                             THEN <<"t", "e", "x", "t">>
                             ELSE <<"c", "o", "n", "t", "e", "n", "t">>,
                     value |-> obj'.message.s]
              /\ obj'.cls = "DiscordNotification" =>
                    <<s_Content_Type, s_application_json>> \in events'[1].headers

\* C6: every notify() of SlackNotification issues exactly one POST to the
\* stored url with the JSON body {"text": message}, every notify() of
\* DiscordNotification one POST with the body {"content": message} and a
\* JSON content-type header, message and url being the values last set by
\* the constructor or a setter.
C6_WebhookPost == [][C6_Step]_vars

C6_Witness ==
    /\ op = "notify" /\ obj.cls = "SlackNotification"
    /\ obj.message = PyStr(<<"\"">>) /\ obj.url = PyStr(<<"u">>)
    /\ Len(events) = 1

---------------------------------------------------------------------------
(* C7: the fixed endpoint of LineNotification *)

C7_Step ==
    obj'.cls = "LineNotification" =>
        /\ StoredIsLastSet("token")
        /\ obj'.URL = PyStr(s_LINE_URL)
        /\ CallsNotify(op') =>
              /\ Len(events') = 1
              /\ events'[1].kind = "post"
              /\ events'[1].url.s =
                    <<"h", "t", "t", "p", "s", ":", "/", "/">>
                    \o <<"n", "o", "t", "i", "f", "y", "-", "a", "p", "i">>
                    \o <<".", "l", "i", "n", "e", ".", "m", "e">>
                    \o <<"/", "a", "p", "i", "/", "n", "o", "t", "i", "f", "y">>
              /\ \E h \in events'[1].headers :
                    /\ h[1] = s_Authorization
                    /\ h[2] = <<"B", "e", "a", "r", "e", "r", " ">> \o obj'.token.s

---------------------------------------------------------------------------
(* C8: the command-line entry points *)

\* the backend class of each entry point
BackendOf ==
    [beep_notify |-> "BeepNotification",
     desktop_notify |-> "CenterNotification",
     slack_notify |-> "SlackNotification",
     discord_notify |-> "DiscordNotification",
     line_notify |-> "LineNotification"]

\* C8: every entry point constructs its backend from the parsed flags and
\* then calls notify() on it exactly once before it exits.
C8_EntryPointNotifiesOnce ==
    op \in EntryPoints =>
        /\ obj.cls = BackendOf[op]
        /\ \A param \in DOMAIN args :
              args[param] # Absent => obj[param] \in {args[param], None}
        /\ Cardinality({k \in 1..Len(invoked) : invoked[k] = "notify"}) = 1

---------------------------------------------------------------------------
(* C9: the OS dispatch *)

HookOf ==
    [Darwin |-> "darwin_notify", Linux |-> "linux_notify",
     Windows |-> "windows_notify"]

\* the hooks each OS-dispatching class defines itself
OverriddenHooks(o) ==
    CASE o.cls = "BeepNotification" /\ o.pkg = "pynotificator" ->
            {"darwin_notify", "linux_notify", "windows_notify"}
      [] o.cls = "BeepNotification" /\ o.pkg = "pynotify" ->
            {"darwin_notify", "linux_notify"}
      [] o.cls = "CenterNotification" ->
            {"darwin_notify", "linux_notify", "windows_notify"}
      [] OTHER -> {}

\* C9: on Darwin, Linux or Windows, one notify() of an OS-dispatching
\* notifier enters the hook of that system exactly once and neither of the
\* other two; a hook that is not overridden fails with NotImplementedError.
C9_DispatchesToOneHook ==
    (op = "notify" /\ OSDispatching(obj) /\ obj.system \in SupportedSystems)
        => /\ invoked = <<"notify", HookOf[obj.system]>>
           /\ IF HookOf[obj.system] \in OverriddenHooks(obj)
              THEN exc = "ok"
              ELSE exc = "NotImplementedError" /\ events = <<>>

C9_Witness ==
    /\ op = "notify" /\ obj.cls = "BeepNotification" /\ obj.pkg = "pynotify"
    /\ obj.system = "Windows"
    /\ invoked = <<"notify", "windows_notify">>
    /\ exc = "NotImplementedError"

---------------------------------------------------------------------------
(* C10: the optional fields of CenterNotification *)

OptionalParams == {"title", "subtitle", "icon", "sound"}

CenterConstructed ==
    /\ op = "construct"
    /\ invoked = <<"pynotificator", "CenterNotification">>

\* C10 as stated: every value supplied for an optional field is validated
\* against its declared type, a wrong-typed one failing with
\* NotificationError, and a field that is not supplied reads back as null.
\* (Passing None counts as not supplying the field.)
C10_OptionalFieldsValidated ==
    CenterConstructed =>
        /\ (\E param \in OptionalParams :
               /\ args[param] \notin {Absent, None}
               /\ args[param].type # DeclaredType[param])
              => exc = "NotificationError"
        /\ exc = "ok" =>
              \A param \in OptionalParams :
                 args[param] \in {Absent, None} => obj[param] = None

\* the value the constructor receives for a parameter
Received(param) ==
    IF args[param] # Absent THEN args[param]
    ELSE IF param = "sound" THEN PyBool(TRUE) ELSE None

\* C10 (amended): the constructor validates the optional values that are
\* truthy, those it received and the default True of sound alike: a truthy
\* value of the wrong type fails with NotificationError; a falsy value
\* (None, '', 0, False) is skipped unvalidated and its field reads back as
\* null; so title, subtitle and icon read back null when not supplied, and
\* sound reads back True.
C10_TruthyOptionalFieldsValidated ==
    CenterConstructed =>
        /\ exc = "NotificationError" <=>
              \/ args.message.type # "str"
              \/ \E param \in OptionalParams :
                    /\ Truthy(Received(param))
                    /\ Received(param).type # DeclaredType[param]
        /\ exc = "ok" =>
              \A param \in OptionalParams :
                 obj[param] = IF Truthy(Received(param))
                              THEN Received(param) ELSE None

C10_Witness ==
    /\ CenterConstructed /\ exc = "ok"
    /\ args.title = PyInt(0) /\ obj.title = None
    /\ args.sound = Absent /\ obj.sound = PyBool(TRUE)
    /\ args.subtitle = PyStr(<<"s">>) /\ obj.subtitle = PyStr(<<"s">>)

---------------------------------------------------------------------------
(* C11: title and subtitle of pynotify's CenterNotification *)

PynotifyCenter(o) == o.cls = "CenterNotification" /\ o.pkg = "pynotify"

\* x occurs in y
Contains(y, x) ==
    \E k \in 1..(Len(y) - Len(x) + 1) : SubSeq(y, k, k + Len(x) - 1) = x

TitleClause(title) ==
    <<"w", "i", "t", "h", " ", "t", "i", "t", "l", "e", " ", "\"">>
    \o title \o <<"\"">>

SubtitleClause(subtitle) ==
    <<"s", "u", "b", "t", "i", "t", "l", "e", " ", "\"">>
    \o subtitle \o <<"\"">>

C11_Step ==
    PynotifyCenter(obj') =>
        /\ \/ obj'.title = None /\ obj'.subtitle = None
           \/ obj'.title.type = "str" /\ obj'.subtitle.type = "str"
        /\ (op' = "set_title" /\ exc' = "ok" /\ obj.subtitle = None)
              => obj'.subtitle = PyStr(<<" ">>)
        /\ (op' = "set_subtitle" /\ exc' = "ok" /\ obj.title = None)
              => obj'.title = PyStr(<<" ">>)
        /\ op' = "notify" =>
              /\ Len(events') = 1 /\ events'[1].kind = "run"
              /\ Len(events'[1].cmd) = 3
              /\ LET script == events'[1].cmd[3]
                 IN  /\ Contains(script, TitleClause(<<>>))
                        <=> Contains(script, SubtitleClause(<<>>))
                     /\ (obj'.title # None /\ obj'.subtitle # None
                         /\ obj'.title.s # <<>> /\ obj'.subtitle.s # <<>>)
                           => /\ Contains(script, TitleClause(obj'.title.s))
                              /\ Contains(script, SubtitleClause(obj'.subtitle.s))

---------------------------------------------------------------------------
(* C12: a setter that fails *)

C12_Step ==
    (op' \in DOMAIN SetterParam /\ exc' = "NotificationError")
        => /\ obj' = obj
           /\ notify(obj') = notify(obj)

\* C12: a setter call that fails with NotificationError leaves every field
\* of the object unchanged - the field being set and, in pynotify, the
\* co-dependent title or subtitle - so a later notify() uses the values
\* from before the failed call.
C12_FailedSetterChangesNothing == [][C12_Step]_vars

C12_Witness ==
    /\ PynotifyCenter(obj)
    /\ op = "set_title" /\ exc = "NotificationError"
    /\ args.title = PyInt(1)
    /\ obj.title = None /\ obj.subtitle = None

====
